---- MODULE Spec2Model ----
(***************************************************************************)
(* BGA footprint wizard (pcbnew/python/plugins/bga_wizard.py).             *)
(*                                                                         *)
(* Lengths are integers in internal units (IU).  Millimetre quantities     *)
(* (the arguments of FromMM, the results of ToMM) are integers in          *)
(* hundredths of a millimetre.  Parameter values are multiples of 0.01 mm, *)
(* so that the halves and quarters the wizard takes (ssx, len_x, the pad   *)
(* grid origin) are exact, as they are for the host's nanometre unit.      *)
(***************************************************************************)
EXTENDS Integers, Sequences, FiniteSets

VARIABLES
    parameters,  \* self.parameters: page -> name -> value
    errors,      \* the parameters CheckParameters reported an error on
    value,       \* the string GetValue returned
    ops,         \* what BuildThisFootprint added to the module, in order
    draw,        \* the drawing context: layer and line thickness
    before,      \* the drawing context the latest build started from
    prev,        \* the previous run (parameters, value, ops, before), if kept
    pc           \* how far the run on the current parameters has got

vars == <<parameters, errors, value, ops, draw, before, prev, pc>>

---------------------------------------------------------------------------
(* Bounds of the model *)

MaxColumns == 2
MaxRows == 2

(* Parameter values offered to the wizard, in hundredths of a millimetre *)
PitchValues == {50, 100}
PadSizeValues == {40, 60}
PadsCountValues == {3, 25}
WidthValues == {50, 100, 204}
LengthValues == {100, 207}
BallSizeValues == {60}
MarginValues == {20, 25}
BevelValues == {20, 150}

---------------------------------------------------------------------------
(* Host unit conversions *)

IU_PER_MM == 400

FromMM(mm) == (mm * IU_PER_MM) \div 100

ToMM(iu) == (iu * 100) \div IU_PER_MM

(* round(value / thresh) * thresh, halves rounded away from zero *)
PutOnGridMM(v, gridSizeMM) ==
    LET thresh == FromMM(gridSizeMM)
    IN  IF v >= 0 THEN ((2 * v + thresh) \div (2 * thresh)) * thresh
                  ELSE -(((2 * (-v) + thresh) \div (2 * thresh)) * thresh)

---------------------------------------------------------------------------
(* Parameters, as self.parameters gives them: lengths in IU *)

PadsPages ==
    [pitch : {FromMM(v) : v \in PitchValues},
     pad_size : {FromMM(v) : v \in PadSizeValues},
     columns : 1..MaxColumns,
     rows : 1..MaxRows,
     override : BOOLEAN,
     pads_count : PadsCountValues]

PackagePages ==
    [width : {FromMM(v) : v \in WidthValues},
     length : {FromMM(v) : v \in LengthValues},
     ball_size : {FromMM(v) : v \in BallSizeValues},
     margin : {FromMM(v) : v \in MarginValues}]

SilkSPages == [bevel : {FromMM(v) : v \in BevelValues}]

ParameterSets == [Pads : PadsPages, Package : PackagePages, SilkS : SilkSPages]

---------------------------------------------------------------------------
(* CheckParameters *)

(* CheckParam(page, name, min_value=...): an error when the value, in mm,  *)
(* is below min_value                                                      *)
CheckParam(p, page, name, min_value) ==
    IF ToMM(p[page][name]) < min_value THEN {<<page, name>>} ELSE {}

CheckParametersSwapped(p) ==
    LET width == ToMM(p.Pads.pitch * p.Pads.rows)
        length == ToMM(p.Pads.pitch * p.Pads.columns)
    IN  CheckParam(p, "Package", "width", width)
            \cup CheckParam(p, "Package", "length", length)

CheckParameters(p) ==
    LET width == ToMM(p.Pads.pitch * p.Pads.columns)
        length == ToMM(p.Pads.pitch * p.Pads.rows)
    IN  CheckParam(p, "Package", "width", width)
            \cup CheckParam(p, "Package", "length", length)

---------------------------------------------------------------------------
(* GetValue: the value string, as a sequence of pieces; numbers are        *)
(* formatted digit by digit                                                *)

Digit == <<"0", "1", "2", "3", "4", "5", "6", "7", "8", "9">>

RECURSIVE FormatInt(_)
FormatInt(n) ==
    IF n < 10 THEN <<Digit[n + 1]>>
    ELSE FormatInt(n \div 10) \o <<Digit[(n % 10) + 1]>>

(* a float of mm, given in hundredths: "6.0", "0.5", "2.04" *)
FormatMM(h) ==
    FormatInt(h \div 100) \o <<".">> \o
        (IF (h % 10) = 0 THEN FormatInt((h % 100) \div 10)
         ELSE <<Digit[((h % 100) \div 10) + 1], Digit[(h % 10) + 1]>>)

Pins(p) ==
    IF p.Pads.override THEN p.Pads.pads_count
    ELSE p.Pads.rows * p.Pads.columns

GetValueRowsFirst(p) ==
    <<"BGA-">> \o FormatInt(Pins(p))
        \o <<"_">> \o FormatMM(ToMM(p.Package.width))
        \o <<"x">> \o FormatMM(ToMM(p.Package.length))
        \o <<"mm_Layout">> \o FormatInt(p.Pads.rows)
        \o <<"x">> \o FormatInt(p.Pads.columns)
        \o <<"_P">> \o FormatMM(ToMM(p.Pads.pitch))
        \o <<"mm_Ball">> \o FormatMM(ToMM(p.Package.ball_size))
        \o <<"mm_Pad">> \o FormatMM(ToMM(p.Pads.pad_size))
        \o <<"mm_NSMD">>

GetValue(p) ==
    <<"BGA-">> \o FormatInt(Pins(p))
        \o <<"_">> \o FormatMM(ToMM(p.Package.width))
        \o <<"x">> \o FormatMM(ToMM(p.Package.length))
        \o <<"mm_Layout">> \o FormatInt(p.Pads.columns)
        \o <<"x">> \o FormatInt(p.Pads.rows)
        \o <<"_P">> \o FormatMM(ToMM(p.Pads.pitch))
        \o <<"mm_Ball">> \o FormatMM(ToMM(p.Package.ball_size))
        \o <<"mm_Pad">> \o FormatMM(ToMM(p.Pads.pad_size))
        \o <<"mm_NSMD">>

---------------------------------------------------------------------------
(* Host drawing aids: every drawing call yields a sequence of items, each   *)
(* carrying the layer and line thickness of the drawing context             *)

Item(op, layer, x1, y1, x2, y2, width, name) ==
    [op |-> op, layer |-> layer, x1 |-> x1, y1 |-> y1, x2 |-> x2, y2 |-> y2,
     width |-> width, name |-> name]

Line(d, x1, y1, x2, y2) ==
    Item("Line", d.layer, x1, y1, x2, y2, d.lineThickness, <<>>)

PolylineInternal(d, pts) ==
    [i \in 1..(Len(pts) - 1) |->
        Line(d, pts[i][1], pts[i][2], pts[i + 1][1], pts[i + 1][2])]

Flip(pts, flipX, flipY) ==
    [i \in 1..Len(pts) |->
        <<IF flipX THEN -pts[i][1] ELSE pts[i][1],
          IF flipY THEN -pts[i][2] ELSE pts[i][2]>>]

(* Polyline(pts, mirrorX, mirrorY): the points as given, then once more     *)
(* mirrored about the axes named (here always the axes through 0)           *)
Polyline(d, pts, mirrorX, mirrorY) ==
    PolylineInternal(d, pts) \o
        (IF mirrorX \/ mirrorY
            THEN PolylineInternal(d, Flip(pts, mirrorX, mirrorY))
            ELSE <<>>)

Box(d, x, y, w, h) ==
    Polyline(d, << <<x - (w \div 2), y - (h \div 2)>>,
                   <<x + (w \div 2), y - (h \div 2)>>,
                   <<x + (w \div 2), y + (h \div 2)>>,
                   <<x - (w \div 2), y + (h \div 2)>>,
                   <<x - (w \div 2), y - (h \div 2)>> >>, FALSE, FALSE)

BoxWithDiagonalAtCorner(d, x, y, w, h, setback) ==
    Polyline(d, << <<x - (w \div 2) + setback, y - (h \div 2)>>,
                   <<x - (w \div 2), y - (h \div 2) + setback>>,
                   <<x - (w \div 2), y + (h \div 2)>>,
                   <<x + (w \div 2), y + (h \div 2)>>,
                   <<x + (w \div 2), y - (h \div 2)>>,
                   <<x - (w \div 2) + setback, y - (h \div 2)>> >>, FALSE, FALSE)

(* a filled circle is a ring of radius r/2 drawn with a pen of width r *)
Circle(d, x, y, r, filled) ==
    IF filled
        THEN <<Item("Circle", d.layer, x, y, x, y + (r \div 2), r, <<>>)>>
        ELSE <<Item("Circle", d.layer, x, y, x, y + r, d.lineThickness, <<>>)>>

TextItem(kind, x, y, size, text) == Item(kind, "", x, y, size, size, 0, text)

---------------------------------------------------------------------------
(* Pad array *)

Alphabet == <<"A", "B", "C", "D", "E", "F", "G", "H", "J", "K",
              "L", "M", "N", "P", "R", "T", "U", "V", "W", "Y">>

RECURSIVE AlphaNameFromNumber(_)
AlphaNameFromNumber(n) ==
    LET div == (n - 1) \div Len(Alphabet)
        alpha == Alphabet[((n - 1) % Len(Alphabet)) + 1]
    IN  IF div > 0 THEN AlphaNameFromNumber(div) \o <<alpha>> ELSE <<alpha>>

NamingFunction(n_x, n_y) == AlphaNameFromNumber(n_y + 1) \o FormatInt(n_x + 1)

(* PadGridArray.AddPadsToModule: nx * ny pads centred on the origin,       *)
(* columns outermost                                                       *)
PadGridArray(pad_size, nx, ny, px, py) ==
    LET pin1posX == -((px * (nx - 1)) \div 2)
        pin1posY == -((py * (ny - 1)) \div 2)
    IN  [k \in 1..(nx * ny) |->
            LET x == (k - 1) \div ny
                y == (k - 1) % ny
            IN  Item("Pad", "F.Cu", pin1posX + x * px, pin1posY + y * py,
                     pad_size, pad_size, 0, NamingFunction(x, y))]

GridColumnsOverridden(p) ==
    IF p.Pads.override THEN p.Pads.pads_count ELSE p.Pads.columns

GridColumns(p) == p.Pads.columns

GridRows(p) == p.Pads.rows

PadOps(p) ==
    PadGridArray(p.Pads.pad_size, GridColumns(p), GridRows(p),
                 p.Pads.pitch, p.Pads.pitch)

---------------------------------------------------------------------------
(* Outline, silkscreen, courtyard, texts *)

Ssx(p) == p.Package.width \div 2

Ssy(p) == p.Package.length \div 2

(* the bevel is 1 mm nominal, smaller values are allowed *)
Bevel(p) ==
    IF ToMM(p.SilkS.bevel) < 100 THEN p.SilkS.bevel ELSE FromMM(100)

FabOps(p, d) ==
    BoxWithDiagonalAtCorner([d EXCEPT !.layer = "F.Fab"], 0, 0,
                            Ssx(p) * 2, Ssy(p) * 2, Bevel(p))

SilkOffset == FromMM(15)

LenX(p) == Ssx(p) \div 2

LenY(p) == Ssy(p) \div 2

Edge(p) ==
    << <<Ssx(p) + SilkOffset - LenX(p), -Ssy(p) - SilkOffset>>,
       <<Ssx(p) + SilkOffset, -Ssy(p) - SilkOffset>>,
       <<Ssx(p) + SilkOffset, -Ssy(p) - SilkOffset + LenY(p)>> >>

Pin1(p) ==
    LET bevel == Bevel(p) + SilkOffset
        pin1 == << <<-Ssx(p) - SilkOffset + LenX(p), -Ssy(p) - SilkOffset>>,
                   <<-Ssx(p) - SilkOffset + bevel, -Ssy(p) - SilkOffset>>,
                   <<-Ssx(p) - SilkOffset, -Ssy(p) - SilkOffset + bevel>>,
                   <<-Ssx(p) - SilkOffset, -Ssy(p) - SilkOffset + LenY(p)>> >>
        cutX == IF bevel > LenX(p) THEN Tail(pin1) ELSE pin1
    IN  IF bevel > LenY(p) THEN SubSeq(cutX, 1, Len(cutX) - 1) ELSE cutX

SilkOps(p, d) ==
    LET s == [d EXCEPT !.layer = "F.SilkS"]
    IN  Polyline(s, Edge(p), FALSE, FALSE)
            \o Polyline(s, Edge(p), FALSE, TRUE)
            \o Polyline(s, Edge(p), TRUE, TRUE)
            \o Polyline(s, Pin1(p), FALSE, FALSE)
            \o Circle(s, -Ssx(p), -Ssy(p), FromMM(20), TRUE)

CourtyardSizeNoMarginDoubling(p) ==
    <<PutOnGridMM(Ssx(p) * 2 + p.Package.margin, 10),
      PutOnGridMM(Ssy(p) * 2 + p.Package.margin, 10)>>

(* rounded to the nearest 0.1 mm, so that the box lands on a 0.05 mm grid *)
CourtyardSize(p) ==
    <<PutOnGridMM((Ssx(p) + p.Package.margin) * 2, 10),
      PutOnGridMM((Ssy(p) + p.Package.margin) * 2, 10)>>

CourtyardOps(p, d) ==
    Box([layer |-> "F.CrtYd", lineThickness |-> FromMM(5)], 0, 0,
        CourtyardSize(p)[1], CourtyardSize(p)[2])

TextSize == FromMM(100)

TextOps(p) ==
    LET ypos == Ssy(p) + TextSize
    IN  <<TextItem("Value", 0, ypos, TextSize, <<>>),
          TextItem("Reference", 0, -ypos, TextSize, <<>>),
          TextItem("Text", 0, 0, TextSize, <<"%R">>)>>

(* the drawing context BuildThisFootprint leaves behind: the courtyard     *)
(* layer, and the line thickness FromMM(cmargin), where cmargin is the      *)
(* margin in IU taken as a number of millimetres                            *)
DrawAfter(p, d) ==
    [layer |-> "F.CrtYd", lineThickness |-> FromMM(p.Package.margin * 100)]

BuildThisFootprintOps(p, d) ==
    PadOps(p) \o FabOps(p, d) \o SilkOps(p, d) \o CourtyardOps(p, d)
        \o TextOps(p)
        \o <<Item("SetAttributes", "", 0, 0, 0, 0, 0, <<"MOD_CMS">>)>>

---------------------------------------------------------------------------
(* The wizard as the host drives it: the user sets the values of one page,  *)
(* then the host calls CheckParameters, GetValue and BuildThisFootprint     *)

DefaultDraw == [layer |-> "F.SilkS", lineThickness |-> FromMM(15)]

(* The narrower parameter sets of the specification that keeps two runs *)
RunParameterSets ==
    {p \in ParameterSets :
        /\ p.Pads.pitch = FromMM(100)
        /\ p.Pads.pad_size = FromMM(40)
        /\ p.Package.width = FromMM(204)
        /\ p.Package.length = FromMM(207)}

InitIn(S) ==
    /\ parameters \in S
    /\ errors = {}
    /\ value = <<>>
    /\ ops = <<>>
    /\ draw = DefaultDraw
    /\ before = DefaultDraw
    /\ prev = <<>>
    /\ pc = "set"

SetParameterValues(S) ==
    /\ pc = "built"
    /\ \E page \in {"Pads", "Package", "SilkS"} :
        \E p \in S :
            /\ \A other \in {"Pads", "Package", "SilkS"} \ {page} :
                    p[other] = parameters[other]
            /\ parameters' = p
    /\ errors' = {}
    /\ value' = <<>>
    /\ ops' = <<>>
    /\ pc' = "set"
    /\ UNCHANGED <<draw, before>>

(* keeps the run that the new values replace *)
KeepRun ==
    prev' = <<[parameters |-> parameters, value |-> value, ops |-> ops,
               before |-> before]>>

CheckParametersCall ==
    /\ pc = "set"
    /\ errors' = CheckParameters(parameters)
    /\ pc' = "checked"
    /\ UNCHANGED <<parameters, value, ops, draw, before, prev>>

GetValueCall ==
    /\ pc = "checked"
    /\ value' = GetValue(parameters)
    /\ pc' = "valued"
    /\ UNCHANGED <<parameters, errors, ops, draw, before, prev>>

BuildThisFootprintCall ==
    /\ pc = "valued"
    /\ ops' = BuildThisFootprintOps(parameters, draw)
    /\ draw' = DrawAfter(parameters, draw)
    /\ before' = draw
    /\ pc' = "built"
    /\ UNCHANGED <<parameters, errors, value, prev>>

Init == InitIn(ParameterSets)

Next ==
    \/ SetParameterValues(ParameterSets) /\ UNCHANGED prev
    \/ CheckParametersCall
    \/ GetValueCall
    \/ BuildThisFootprintCall

Spec == Init /\ [][Next]_vars

InitRuns == InitIn(RunParameterSets)

NextRuns ==
    \/ SetParameterValues(RunParameterSets) /\ KeepRun
    \/ CheckParametersCall
    \/ GetValueCall
    \/ BuildThisFootprintCall

SpecRuns == InitRuns /\ [][NextRuns]_vars

---------------------------------------------------------------------------
(* Reading the results back *)

Checked == pc \in {"checked", "valued", "built"}

Valued == pc \in {"valued", "built"}

Built == pc = "built"

Abs(x) == IF x < 0 THEN -x ELSE x

MaxOf(S) == CHOOSE m \in S : \A x \in S : x <= m

Items(seq, layer) == {seq[i] : i \in {j \in 1..Len(seq) : seq[j].layer = layer}}

ItemsOf(seq, op) == {seq[i] : i \in {j \in 1..Len(seq) : seq[j].op = op}}

(* the position of the first piece s at or after position i; 0 if none *)
RECURSIVE IndexFrom(_, _, _)
IndexFrom(seq, s, i) ==
    IF i > Len(seq) THEN 0
    ELSE IF seq[i] = s THEN i
    ELSE IndexFrom(seq, s, i + 1)

DigitValue(c) == (CHOOSE k \in 1..10 : Digit[k] = c) - 1

IsNumber(seq) ==
    /\ Len(seq) > 0
    /\ \A i \in 1..Len(seq) : \E k \in 1..10 : Digit[k] = seq[i]

RECURSIVE ParseInt(_)
ParseInt(seq) ==
    IF Len(seq) = 0 THEN 0
    ELSE 10 * ParseInt(SubSeq(seq, 1, Len(seq) - 1)) + DigitValue(seq[Len(seq)])

(* the pieces between the delimiter at position i and the next piece s *)
Field(seq, i, s) == SubSeq(seq, i + 1, IndexFrom(seq, s, i + 1) - 1)

ValuePins == Field(value, 1, "_")

ValueLayoutA == Field(value, IndexFrom(value, "mm_Layout", 1), "x")

ValueLayoutB ==
    Field(value, IndexFrom(value, "x", IndexFrom(value, "mm_Layout", 1)), "_P")

---------------------------------------------------------------------------
(* C1: in the value string GetValue returns, the pin count after "BGA-" is  *)
(* rows * columns when override is false and pads_count when it is true,    *)
(* and the Layout part is columns x rows whatever override and pads_count   *)
(* are.                                                                     *)
C1_ValuePinsAndLayout ==
    Valued =>
        /\ value[1] = "BGA-"
        /\ IsNumber(ValuePins)
        /\ ~parameters.Pads.override =>
                ParseInt(ValuePins) = parameters.Pads.rows * parameters.Pads.columns
        /\ parameters.Pads.override =>
                ParseInt(ValuePins) = parameters.Pads.pads_count
        /\ IsNumber(ValueLayoutA) /\ IsNumber(ValueLayoutB)
        /\ ParseInt(ValueLayoutA) = parameters.Pads.columns
        /\ ParseInt(ValueLayoutB) = parameters.Pads.rows

C1_Witness ==
    /\ Valued
    /\ parameters.Pads.override
    /\ parameters.Pads.pads_count = 25
    /\ parameters.Pads.columns = 1
    /\ parameters.Pads.rows = 2

(* C2: CheckParameters reports an error on Package.width exactly when       *)
(* width < pitch * columns and on Package.length exactly when               *)
(* length < pitch * rows, reports nothing else, and neither check depends   *)
(* on the other.                                                            *)
C2_ErrorsExactlyWhenTooSmall ==
    Checked =>
        /\ (<<"Package", "width">> \in errors) <=>
                (parameters.Package.width
                    < parameters.Pads.pitch * parameters.Pads.columns)
        /\ (<<"Package", "length">> \in errors) <=>
                (parameters.Package.length
                    < parameters.Pads.pitch * parameters.Pads.rows)
        /\ errors \subseteq {<<"Package", "width">>, <<"Package", "length">>}

C2_Witness ==
    /\ Checked
    /\ errors = {<<"Package", "width">>}
    /\ parameters.Pads.columns # parameters.Pads.rows

(* a round pad, centre (x1, y1) and diameter x2 = y2, within the outline *)
PadInsideOutline(pad) ==
    /\ 2 * Abs(pad.x1) + pad.x2 <= parameters.Package.width
    /\ 2 * Abs(pad.y1) + pad.y2 <= parameters.Package.length

(* C3: whenever CheckParameters reports no error, every pad that            *)
(* BuildThisFootprint builds (round, of diameter pad_size) lies entirely    *)
(* inside the package outline rectangle, width x length, centred on the     *)
(* origin.                                                                  *)
C3_PadsInsideOutline ==
    (Built /\ errors = {}) => \A pad \in ItemsOf(ops, "Pad") : PadInsideOutline(pad)

(* parameter sets that differ in override and pads_count at most *)
SameButPinCount(p, q) ==
    /\ p.Package = q.Package
    /\ p.SilkS = q.SilkS
    /\ [p.Pads EXCEPT !.override = FALSE, !.pads_count = 0]
            = [q.Pads EXCEPT !.override = FALSE, !.pads_count = 0]

(* the items without the pen the lines were drawn with *)
Geometry(seq) ==
    [i \in 1..Len(seq) |->
        IF seq[i].op = "Line" THEN [seq[i] EXCEPT !.width = 0] ELSE seq[i]]

IsPad(it) == it.op = "Pad"

(* C4: override and pads_count affect only the pin count in the name: two *)
(* builds whose parameters differ in nothing else give the same pad array,  *)
(* rows * columns pads with the same names, size and positions, and the     *)
(* same outline, silkscreen and courtyard geometry; started from the same   *)
(* line thickness they give the very same items.                            *)
C4_OverrideLeavesGeometry ==
    (Built /\ prev # <<>> /\ SameButPinCount(parameters, prev[1].parameters)) =>
        /\ Geometry(ops) = Geometry(prev[1].ops)
        /\ SelectSeq(ops, IsPad) = SelectSeq(prev[1].ops, IsPad)
        /\ Len(SelectSeq(ops, IsPad))
                = parameters.Pads.rows * parameters.Pads.columns
        /\ before.lineThickness = prev[1].before.lineThickness =>
                ops = prev[1].ops

C4_Witness ==
    /\ Built
    /\ prev # <<>>
    /\ SameButPinCount(parameters, prev[1].parameters)
    /\ parameters.Pads.override /\ ~prev[1].parameters.Pads.override
    /\ parameters.Pads.pads_count # prev[1].parameters.Pads.pads_count
    /\ parameters.Pads.pads_count
            # parameters.Pads.rows * parameters.Pads.columns
    /\ parameters.Pads.columns = 2
    /\ before.lineThickness = prev[1].before.lineThickness

(* C5: two runs of GetValue and BuildThisFootprint on identical parameter  *)
(* values give the same value string and the same items, with the same      *)
(* layers, coordinates, sizes and line thicknesses, whatever line thickness *)
(* was in effect before each run.                                           *)
C5_SameParametersSameItems ==
    (Built /\ prev # <<>> /\ parameters = prev[1].parameters) =>
        /\ value = prev[1].value
        /\ ops = prev[1].ops

(* Reading the courtyard and the silkscreen marks off the items *)
Xs(items) == {it.x1 : it \in items} \cup {it.x2 : it \in items}

Ys(items) == {it.y1 : it \in items} \cup {it.y2 : it \in items}

Courtyard == Items(ops, "F.CrtYd")

CourtyardHalfX == MaxOf(Xs(Courtyard))

CourtyardHalfY == MaxOf(Ys(Courtyard))

SilkLines == Items(ops, "F.SilkS") \cap ItemsOf(ops, "Line")

(* the polyline drawn from Pin1, the last lines drawn on F.SilkS *)
Pin1Lines ==
    {it \in SilkLines :
        \E i \in 1..(Len(Pin1(parameters)) - 1) :
            /\ it.x1 = Pin1(parameters)[i][1] /\ it.y1 = Pin1(parameters)[i][2]
            /\ it.x2 = Pin1(parameters)[i + 1][1]
            /\ it.y2 = Pin1(parameters)[i + 1][2]}

Encloses(items) ==
    /\ \A x \in Xs(items) : Abs(x) <= CourtyardHalfX
    /\ \A y \in Ys(items) : Abs(y) <= CourtyardHalfY

(* the four lines of a box centred on the origin, sized and placed as C6   *)
(* says, around the outline, with the corner marks 0.15 mm off the outline *)
CourtyardBox ==
    /\ Cardinality(Courtyard) = 4
    /\ Xs(Courtyard) = {-CourtyardHalfX, CourtyardHalfX}
    /\ Ys(Courtyard) = {-CourtyardHalfY, CourtyardHalfY}
    /\ \A it \in Courtyard : it.x1 = it.x2 \/ it.y1 = it.y2
    /\ (2 * CourtyardHalfX) % FromMM(10) = 0
    /\ (2 * CourtyardHalfY) % FromMM(10) = 0
    /\ CourtyardHalfX % FromMM(5) = 0
    /\ CourtyardHalfY % FromMM(5) = 0
    /\ Abs(2 * CourtyardHalfX
            - (parameters.Package.width + 2 * parameters.Package.margin))
                <= FromMM(5)
    /\ Abs(2 * CourtyardHalfY
            - (parameters.Package.length + 2 * parameters.Package.margin))
                <= FromMM(5)
    /\ 2 * CourtyardHalfX >= parameters.Package.width
    /\ 2 * CourtyardHalfY >= parameters.Package.length
    /\ MaxOf(Xs(SilkLines \ Pin1Lines)) = Ssx(parameters) + FromMM(15)
    /\ MaxOf(Ys(SilkLines \ Pin1Lines)) = Ssy(parameters) + FromMM(15)

(* C6 as stated: with margin >= 0.2 mm the courtyard box on F.CrtYd is      *)
(* centred on the origin, each side is a multiple of 0.1 mm within 0.05 mm  *)
(* of the package side plus twice the margin (so the edges are on the       *)
(* 0.05 mm grid), and it encloses the package outline and all the           *)
(* silkscreen corner and pin-1 marks drawn 0.15 mm outside the outline.     *)
C6_CourtyardEnclosesAllMarks ==
    (Built /\ parameters.Package.margin >= FromMM(20)) =>
        /\ CourtyardBox
        /\ Encloses(SilkLines)

(* C6 as amended: the courtyard box is as above and encloses the package   *)
(* outline and the three corner marks; it encloses the pin-1 mark when both *)
(* package sides are at least the bevel drawn, min(bevel, 1 mm).            *)
C6_CourtyardEnclosesMarks ==
    (Built /\ parameters.Package.margin >= FromMM(20)) =>
        /\ CourtyardBox
        /\ Encloses(SilkLines \ Pin1Lines)
        /\ (/\ Bevel(parameters) <= parameters.Package.width
            /\ Bevel(parameters) <= parameters.Package.length) =>
                Encloses(Pin1Lines)

C6_Witness ==
    /\ Built
    /\ parameters.Package.margin = FromMM(20)
    /\ Bevel(parameters) <= parameters.Package.width
    /\ Bevel(parameters) <= parameters.Package.length
    /\ Bevel(parameters) = FromMM(100)
    /\ Pin1Lines # {}
    /\ 2 * CourtyardHalfX
            < parameters.Package.width + 2 * parameters.Package.margin
    /\ 2 * CourtyardHalfY
            > parameters.Package.length + 2 * parameters.Package.margin

====
